---- MODULE Spec2Model ----
(***************************************************************************)
(* Model of analyze-scrublogs.py: the line classifier of                   *)
(* CephScrubLogAnalyzer.parse, the EventLog, and the scrub-start           *)
(* synthesis and emission passes.                                          *)
(*                                                                         *)
(* Timestamps are integers (microseconds).  An input line is represented   *)
(* by the groups its regular expression captures.  The program is          *)
(* deterministic: a run is decided by the configuration and the input      *)
(* file, both drawn in Init from bounded sets.                             *)
(***************************************************************************)
EXTENDS Integers, Sequences, FiniteSets, TLC

VARIABLES
    pc,               \* position of the run: classify, synth, emit, done, aborted
    err,              \* exception that ended the run, or None
    input,            \* the lines of the input file not yet read
    min_time,         \* self.min_time
    scrub_rate_est,   \* self.scrub_rate_est (bytes per second)
    log_unknown_lines,\* self.log_unknown_lines
    scrub_count,      \* self.scrub_count
    shallow_count,    \* self.shallow_count
    deep_count,       \* self.deep_count
    log,              \* self.log.log : dict time -> list of events
    osd_to_host,      \* self.osd_to_host
    osd_to_kb_used,   \* self.osd_to_kb_used
    pg,               \* self.pg : dict pgid -> PG
    current_host,     \* self.current_host
    gen_keys,         \* forward(): the sorted key list of the running generator
    gen_k,            \* forward(): index of the bucket being traversed
    gen_i,            \* forward(): number of events already yielded from it
    out,              \* what has been printed, in order
    nadded,           \* number of EventLog.add calls so far
    snap,             \* forward() of the log when the synthesis pass began
    handed            \* events handed to add_scrub_start_event, in order

vars == <<pc, err, input, min_time, scrub_rate_est, log_unknown_lines,
          scrub_count, shallow_count, deep_count, log, osd_to_host,
          osd_to_kb_used, pg, current_host, gen_keys, gen_k, gen_i, out,
          nadded, snap, handed>>

None == "None"

SCRUB_SHALLOW == 0
SCRUB_DEEP == 1
SCRUB_RATE_EST == 80000000

\* min_time=None is represented by a value no timestamp takes
NoMinTime == -1

(***************************************************************************)
(* Python dict and list helpers                                            *)
(***************************************************************************)
DictSet(d, k, v) == [x \in (DOMAIN d) \cup {k} |-> IF x = k THEN v ELSE d[x]]

EmptyDict == [x \in {} |-> None]

RECURSIVE sorted(_)
sorted(S) ==
    IF S = {} THEN <<>>
    ELSE LET m == CHOOSE x \in S : \A y \in S : x <= y
         IN  <<m>> \o sorted(S \ {m})

(***************************************************************************)
(* Events                                                                  *)
(***************************************************************************)
ScrubEvent(time, scrub_type, p, start, seq) ==
    [cls |-> "ScrubEvent", time |-> time, scrub_type |-> scrub_type,
     start |-> start, pg |-> p, seq |-> seq]

\* received is the embedded "received at" timestamp of the line the event
\* was made from; the object itself stores time, osdno and description only.
OSDSlowRequestEvent(time, osdno, description, seq, received) ==
    [cls |-> "OSDSlowRequestEvent", time |-> time, osdno |-> osdno,
     description |-> description, seq |-> seq, received |-> received]

PG(pgid, bytes, up, acting, hosts) ==
    [pgid |-> pgid, bytes |-> bytes, up |-> up, acting |-> acting,
     hosts |-> hosts]

(***************************************************************************)
(* EventLog                                                                *)
(***************************************************************************)
\* a bucket that keeps only the latest event
add_overwrite(l, event) == DictSet(l, event.time, <<event>>)

add(l, event) ==
    IF event.time \in DOMAIN l
    THEN [l EXCEPT ![event.time] = Append(@, event)]
    ELSE DictSet(l, event.time, <<event>>)

RECURSIVE concat(_, _)
concat(l, keys) ==
    IF keys = <<>> THEN <<>> ELSE l[Head(keys)] \o concat(l, Tail(keys))

\* forward() run to exhaustion on a log nobody changes meanwhile
forward(l) == concat(l, sorted(DOMAIN l))

\* One resumption of a forward() generator whose position is (k, i) over
\* the key list keys: the bucket is read from the live log.
gen_has_next(l, keys, k, i) ==
    /\ k <= Len(keys)
    /\ \/ i < Len(l[keys[k]])
       \/ k < Len(keys)

gen_next_pos(l, keys, k, i) ==
    IF i < Len(l[keys[k]]) THEN <<k, i + 1>> ELSE <<k + 1, 1>>

(***************************************************************************)
(* Input lines, by the grammar that matches them                           *)
(***************************************************************************)
\* OSD_LOG_RE: osdno, timestamp, remainder
OsdLogLine(osdno, tstamp, rest) ==
    [kind |-> "osd_log", osdno |-> osdno, tstamp |-> tstamp, rest |-> rest]

\* remainders: OSD_LOG_SCRUB_RE, OSD_LOG_SLOW_RE, OSD_LOG_SLOWS_RE,
\* OSD_PARAM_SET_RE, anything else
ScrubRest(pgid, scrub_type) ==
    [re |-> "scrub", pgid |-> pgid, scrub_type |-> scrub_type]
SlowRest(received, explanation) ==
    [re |-> "slow", received |-> received, explanation |-> explanation]
SlowsRest == [re |-> "slows"]
ParamSetRest == [re |-> "param_set"]
OtherRest == [re |-> "other"]

\* PG_RE
PgDumpLine(pgid, bytes, up_set, up_primary, acting_set, acting_primary) ==
    [kind |-> "pg", pgid |-> pgid, bytes |-> bytes, up_set |-> up_set,
     up_primary |-> up_primary, acting_set |-> acting_set,
     acting_primary |-> acting_primary]

\* OSD_TREE_HOST_RE, OSD_TREE_OSD_RE, OSD_STATS_RE, no grammar at all
HostLine(host) == [kind |-> "host", host |-> host]
OsdLine(osdno) == [kind |-> "osd", osdno |-> osdno]
StatsLine(osdno, kb_used) == [kind |-> "stats", osdno |-> osdno, kb_used |-> kb_used]
OtherLine == [kind |-> "other"]

(***************************************************************************)
(* Bounds and the sets the configuration and the input file are drawn from *)
(***************************************************************************)
\* longest file over the whole alphabet
MaxLines == 1
\* longest file of topology and PG-dump lines
MaxTopoLines == 5
\* most log lines after the topology and PG-dump prefix
MaxLogLines == 4

Hosts == {"hostA", "hostB"}
Osds == {0, 1}
PgIds == {"1.0", "1.1"}
OsdSets == {<<0>>, <<1, 0>>}
TStamps == {4, 5, 6}
MinTimes == {NoMinTime, 5}
Rates == {SCRUB_RATE_EST, 40000000}
KnownOps == {"osd_op", "osd_sub_op", "osd_sub_op_reply"}
UnknownOp == "unexpected format xyz"
ScrubTypes == {"scrub", "deep-scrub"}

AnyRest ==
    {ScrubRest(pgid, t) : pgid \in PgIds, t \in ScrubTypes}
    \cup {SlowRest(r, e) : r \in TStamps, e \in KnownOps \cup {UnknownOp}}
    \cup {SlowsRest, ParamSetRest, OtherRest}

AnyLine ==
    {OsdLogLine(o, t, r) : o \in Osds, t \in TStamps, r \in AnyRest}
    \cup {PgDumpLine("1.0", 120, u, up, a, ap) :
              u \in OsdSets, up \in Osds, a \in OsdSets, ap \in Osds}
    \cup {HostLine(h) : h \in Hosts}
    \cup {OsdLine(o) : o \in Osds}
    \cup {StatsLine(o, 7) : o \in Osds}
    \cup {OtherLine}

TopoLine ==
    {HostLine(h) : h \in Hosts}
    \cup {OsdLine(o) : o \in Osds}
    \cup {PgDumpLine("1.0", 0, a, a[1], a, a[1]) : a \in OsdSets}

\* one host, one osd, an empty PG and a PG of 120 bytes
LogPrefix ==
    <<HostLine("hostA"), OsdLine(0),
      PgDumpLine("1.0", 0, <<0>>, 0, <<0>>, 0),
      PgDumpLine("1.1", 120, <<0>>, 0, <<0>>, 0)>>

LogLine ==
    {OsdLogLine(0, t, ScrubRest(pgid, "deep-scrub")) :
         t \in {5, 6}, pgid \in PgIds}
    \cup {OsdLogLine(0, t, ScrubRest("1.0", "scrub")) : t \in {5, 6}}
    \cup {OsdLogLine(0, 5, SlowRest(4, "osd_op")),
          OsdLogLine(0, 6, SlowRest(5, UnknownOp))}
    \cup {PgDumpLine("1.0", 120, <<0>>, 0, <<0>>, 0)}

RECURSIVE Words(_, _)
Words(A, n) ==
    IF n = 0 THEN {<<>>}
    ELSE LET W == Words(A, n - 1)
         IN  W \cup {Append(w, a) : w \in {v \in W : Len(v) = n - 1}, a \in A}

(***************************************************************************)
(* CephScrubLogAnalyzer.__init__, and the file parse() is about to read    *)
(***************************************************************************)
Constructed ==
    /\ pc = "classify"
    /\ err = None
    /\ scrub_count = 0
    /\ shallow_count = 0
    /\ deep_count = 0
    /\ log = EmptyDict
    /\ osd_to_host = EmptyDict
    /\ osd_to_kb_used = EmptyDict
    /\ pg = EmptyDict
    /\ current_host = None
    /\ gen_keys = <<>>
    /\ gen_k = 1
    /\ gen_i = 0
    /\ out = <<>>
    /\ nadded = 0
    /\ snap = <<>>
    /\ handed = <<>>

InitAnyFile ==
    /\ input \in Words(AnyLine, MaxLines)
    /\ min_time \in MinTimes
    /\ scrub_rate_est = SCRUB_RATE_EST
    /\ log_unknown_lines \in BOOLEAN

InitTopoFile ==
    /\ input \in Words(TopoLine, MaxTopoLines)
    /\ min_time = NoMinTime
    /\ scrub_rate_est = SCRUB_RATE_EST
    /\ log_unknown_lines = FALSE

InitLogFile ==
    /\ input \in {LogPrefix \o w : w \in Words(LogLine, MaxLogLines)}
    /\ min_time \in MinTimes
    /\ scrub_rate_est \in Rates
    /\ log_unknown_lines = FALSE

Init ==
    /\ Constructed
    /\ InitAnyFile \/ InitTopoFile \/ InitLogFile

config == <<min_time, scrub_rate_est, log_unknown_lines>>
counters == <<scrub_count, shallow_count, deep_count>>
genvars == <<gen_keys, gen_k, gen_i, snap, handed>>
topology == <<osd_to_host, osd_to_kb_used, current_host>>

Printed(kind, seq) == [kind |-> kind, seq |-> seq]

\* the loop "for line in open(...)" takes the next line, of the given kind
Line == Head(input)

NextLine(kind) ==
    /\ pc = "classify"
    /\ input # <<>>
    /\ Line.kind = kind
    /\ input' = Tail(input)

\* an exception leaves parse()
Raise(e) ==
    /\ pc' = "aborted"
    /\ err' = e

Continue == UNCHANGED <<pc, err>>

(***************************************************************************)
(* parse_osd_log_line and the sub-grammars of its remainder                *)
(***************************************************************************)
parse_scrub_type(scrub_type) ==
    IF scrub_type = "scrub" THEN SCRUB_SHALLOW ELSE SCRUB_DEEP

\* a shallow scrub that is not counted in the total
parse_osd_log_scrub_line_miscount(pgid, scrub_type, tstamp) ==
    IF scrub_type = SCRUB_SHALLOW
    THEN /\ shallow_count' = shallow_count + 1
         /\ Continue
         /\ UNCHANGED <<scrub_count, deep_count, log, nadded>>
    ELSE /\ deep_count' = deep_count + 1
         /\ IF pgid \in DOMAIN pg
            THEN /\ log' = add(log, ScrubEvent(tstamp, scrub_type, pg[pgid],
                                               FALSE, nadded + 1))
                 /\ nadded' = nadded + 1
                 /\ scrub_count' = scrub_count + 1
                 /\ Continue
            ELSE /\ Raise("KeyError")
                 /\ UNCHANGED <<log, nadded, scrub_count>>
         /\ UNCHANGED shallow_count

\* a registry lookup that forgives a missing PG (self.pg.get(pgid))
parse_osd_log_scrub_line_forgiving(pgid, scrub_type, tstamp) ==
    IF scrub_type = SCRUB_SHALLOW
    THEN /\ shallow_count' = shallow_count + 1
         /\ scrub_count' = scrub_count + 1
         /\ Continue
         /\ UNCHANGED <<deep_count, log, nadded>>
    ELSE /\ deep_count' = deep_count + 1
         /\ IF pgid \in DOMAIN pg
            THEN /\ log' = add(log, ScrubEvent(tstamp, scrub_type, pg[pgid],
                                               FALSE, nadded + 1))
                 /\ nadded' = nadded + 1
            ELSE UNCHANGED <<log, nadded>>
         /\ scrub_count' = scrub_count + 1
         /\ Continue
         /\ UNCHANGED shallow_count

\* a shallow scrub that is logged like a deep one
parse_osd_log_scrub_line_logs_all(pgid, scrub_type, tstamp) ==
    /\ IF scrub_type = SCRUB_SHALLOW
       THEN shallow_count' = shallow_count + 1 /\ UNCHANGED deep_count
       ELSE deep_count' = deep_count + 1 /\ UNCHANGED shallow_count
    /\ IF pgid \in DOMAIN pg
       THEN /\ log' = add(log, ScrubEvent(tstamp, scrub_type, pg[pgid],
                                          FALSE, nadded + 1))
            /\ nadded' = nadded + 1
            /\ scrub_count' = scrub_count + 1
            /\ Continue
       ELSE /\ Raise("KeyError")
            /\ UNCHANGED <<log, nadded, scrub_count>>

\* a deep scrub that is counted but never logged
parse_osd_log_scrub_line_count_only(pgid, scrub_type, tstamp) ==
    /\ IF scrub_type = SCRUB_SHALLOW
       THEN shallow_count' = shallow_count + 1 /\ UNCHANGED deep_count
       ELSE deep_count' = deep_count + 1 /\ UNCHANGED shallow_count
    /\ IF scrub_type = SCRUB_SHALLOW \/ pgid \in DOMAIN pg
       THEN scrub_count' = scrub_count + 1 /\ Continue
       ELSE Raise("KeyError") /\ UNCHANGED scrub_count
    /\ UNCHANGED <<log, nadded>>

\* the registry lookup made before any counter is touched
parse_osd_log_scrub_line_lookup_first(pgid, scrub_type, tstamp) ==
    IF scrub_type = SCRUB_SHALLOW
    THEN /\ shallow_count' = shallow_count + 1
         /\ scrub_count' = scrub_count + 1
         /\ Continue
         /\ UNCHANGED <<deep_count, log, nadded>>
    ELSE /\ IF pgid \in DOMAIN pg
            THEN /\ deep_count' = deep_count + 1
                 /\ log' = add(log, ScrubEvent(tstamp, scrub_type, pg[pgid],
                                               FALSE, nadded + 1))
                 /\ nadded' = nadded + 1
                 /\ scrub_count' = scrub_count + 1
                 /\ Continue
            ELSE /\ Raise("KeyError")
                 /\ UNCHANGED <<deep_count, log, nadded, scrub_count>>
         /\ UNCHANGED shallow_count

parse_osd_log_scrub_line(pgid, scrub_type, tstamp) ==
    IF scrub_type = SCRUB_SHALLOW
    THEN /\ shallow_count' = shallow_count + 1
         /\ scrub_count' = scrub_count + 1
         /\ Continue
         /\ UNCHANGED <<deep_count, log, nadded>>
    ELSE /\ deep_count' = deep_count + 1
         /\ IF pgid \in DOMAIN pg
            THEN /\ log' = add(log, ScrubEvent(tstamp, scrub_type, pg[pgid],
                                               FALSE, nadded + 1))
                 /\ nadded' = nadded + 1
                 /\ scrub_count' = scrub_count + 1
                 /\ Continue
            ELSE /\ Raise("KeyError")
                 /\ UNCHANGED <<log, nadded, scrub_count>>
         /\ UNCHANGED shallow_count

\* the time parse_slow_osd_op, parse_slow_osd_sub_op and
\* parse_slow_osd_sub_op_reply construct the OSDSlowRequestEvent with
slow_event_time(tstamp, received) == tstamp

parse_slow_known(explanation, osdno, tstamp, received) ==
    /\ log' = add(log, OSDSlowRequestEvent(slow_event_time(tstamp, received),
                                           osdno, explanation, nadded + 1,
                                           received))
    /\ nadded' = nadded + 1
    /\ Continue
    /\ UNCHANGED out

osd_host_defined(osd) == osd \in DOMAIN osd_to_host

osd_host(osd) == osd_to_host[osd]

parse_osd_log_slow_line(explanation, osdno, tstamp, received) ==
    IF explanation \in KnownOps
    THEN parse_slow_known(explanation, osdno, tstamp, received)
    ELSE /\ IF osd_host_defined(osdno)
            THEN /\ out' = Append(out, Printed("diag", 0))
                 /\ Continue
            ELSE /\ Raise("KeyError")
                 /\ UNCHANGED out
         /\ UNCHANGED <<log, nadded>>

passes_min_time(tstamp) == min_time = NoMinTime \/ min_time < tstamp

\* body is what the matching sub-grammar does with the remainder
parse_osd_log_line(re, body) ==
    /\ NextLine("osd_log")
    /\ Line.rest.re = re
    /\ IF passes_min_time(Line.tstamp)
       THEN body
       ELSE /\ Continue
            /\ UNCHANGED <<counters, log, nadded, out>>
    /\ UNCHANGED <<config, topology, pg, genvars>>

OsdLogScrubLine ==
    parse_osd_log_line("scrub",
        /\ parse_osd_log_scrub_line(Line.rest.pgid,
                                    parse_scrub_type(Line.rest.scrub_type),
                                    Line.tstamp)
        /\ UNCHANGED out)

OsdLogSlowLine ==
    parse_osd_log_line("slow",
        /\ parse_osd_log_slow_line(Line.rest.explanation, Line.osdno,
                                   Line.tstamp, Line.rest.received)
        /\ UNCHANGED counters)

OsdLogSlowsLine ==
    parse_osd_log_line("slows",
        /\ Continue
        /\ UNCHANGED <<counters, log, nadded, out>>)

OsdParamSetLine ==
    parse_osd_log_line("param_set",
        /\ Continue
        /\ UNCHANGED <<counters, log, nadded, out>>)

\* an unrecognized remainder that is passed over
OsdLogUnrecognizedLine_pass ==
    parse_osd_log_line("other",
        /\ Continue
        /\ UNCHANGED <<counters, log, nadded, out>>)

OsdLogUnrecognizedLine ==
    parse_osd_log_line("other",
        /\ Raise("ParseError")
        /\ UNCHANGED <<counters, log, nadded, out>>)

(***************************************************************************)
(* PG dump, topology and statistics lines                                  *)
(***************************************************************************)
\* the host of the acting primary only
pg_hosts_primary(acting_set) == <<osd_host(acting_set[1])>>

pg_hosts(acting_set) == [i \in 1..Len(acting_set) |-> osd_host(acting_set[i])]

\* a registry that keeps the first record of an id (self.pg.setdefault)
parse_pg_keep_first(pgid, bytes, up_set, up_primary, acting_set, acting_primary) ==
    IF up_set[1] # up_primary \/ acting_set[1] # acting_primary
    THEN /\ Raise("AssertionError")
         /\ UNCHANGED pg
    ELSE IF \E i \in 1..Len(acting_set) : ~osd_host_defined(acting_set[i])
    THEN /\ Raise("KeyError")
         /\ UNCHANGED pg
    ELSE /\ pg' = IF pgid \in DOMAIN pg THEN pg
                  ELSE DictSet(pg, pgid, PG(pgid, bytes, up_set, acting_set,
                                            pg_hosts(acting_set)))
         /\ Continue

\* the dump line taken as it comes, its fields unvalidated
parse_pg_unchecked(pgid, bytes, up_set, up_primary, acting_set, acting_primary) ==
    /\ pg' = DictSet(pg, pgid,
                     PG(pgid, bytes, up_set, acting_set,
                        [i \in 1..Len(acting_set) |->
                            IF osd_host_defined(acting_set[i])
                            THEN osd_host(acting_set[i]) ELSE None]))
    /\ Continue

parse_pg(pgid, bytes, up_set, up_primary, acting_set, acting_primary) ==
    IF up_set[1] # up_primary \/ acting_set[1] # acting_primary
    THEN /\ Raise("AssertionError")
         /\ UNCHANGED pg
    ELSE IF \E i \in 1..Len(acting_set) : ~osd_host_defined(acting_set[i])
    THEN /\ Raise("KeyError")
         /\ UNCHANGED pg
    ELSE /\ pg' = DictSet(pg, pgid, PG(pgid, bytes, up_set, acting_set,
                                       pg_hosts(acting_set)))
         /\ Continue

PgLine ==
    /\ NextLine("pg")
    /\ parse_pg(Line.pgid, Line.bytes, Line.up_set, Line.up_primary,
                Line.acting_set, Line.acting_primary)
    /\ UNCHANGED <<config, counters, log, nadded, out, topology, genvars>>

parse_osd_tree_host(host) == current_host' = host

OsdTreeHostLine ==
    /\ NextLine("host")
    /\ parse_osd_tree_host(Line.host)
    /\ Continue
    /\ UNCHANGED <<config, counters, log, nadded, out, osd_to_host,
                   osd_to_kb_used, pg, genvars>>

parse_osd_tree_osd(osdno) ==
    osd_to_host' = DictSet(osd_to_host, osdno, current_host)

OsdTreeOsdLine ==
    /\ NextLine("osd")
    /\ parse_osd_tree_osd(Line.osdno)
    /\ Continue
    /\ UNCHANGED <<config, counters, log, nadded, out, current_host,
                   osd_to_kb_used, pg, genvars>>

parse_osd_stats(osdno, kb_used) ==
    osd_to_kb_used' = DictSet(osd_to_kb_used, osdno, kb_used)

OsdStatsLine ==
    /\ NextLine("stats")
    /\ parse_osd_stats(Line.osdno, Line.kb_used)
    /\ Continue
    /\ UNCHANGED <<config, counters, log, nadded, out, current_host,
                   osd_to_host, pg, genvars>>

\* an unknown line treated like an unrecognized log remainder
UnknownLine_raise ==
    /\ NextLine("other")
    /\ Raise("ParseError")
    /\ UNCHANGED <<config, counters, log, nadded, out, topology, pg, genvars>>

\* a line none of the five grammars matches
UnknownLine ==
    /\ NextLine("other")
    /\ out' = IF log_unknown_lines THEN Append(out, Printed("echo", 0)) ELSE out
    /\ Continue
    /\ UNCHANGED <<config, counters, log, nadded, topology, pg, genvars>>

(***************************************************************************)
(* End of the input: summary line, then add_scrub_start_events             *)
(***************************************************************************)
\* the end of the input without the summary line
EndOfInput_silent ==
    /\ pc = "classify"
    /\ input = <<>>
    /\ pc' = "synth"
    /\ gen_keys' = sorted(DOMAIN log)
    /\ gen_k' = 1
    /\ gen_i' = 0
    /\ snap' = forward(log)
    /\ UNCHANGED <<err, input, config, counters, log, nadded, out, topology,
                   pg, handed>>

EndOfInput ==
    /\ pc = "classify"
    /\ input = <<>>
    /\ pc' = "synth"
    /\ out' = Append(out, Printed("summary", 0))
    /\ gen_keys' = sorted(DOMAIN log)
    /\ gen_k' = 1
    /\ gen_i' = 0
    /\ snap' = forward(log)
    /\ UNCHANGED <<err, input, config, counters, log, nadded, topology, pg,
                   handed>>

\* timedelta(microseconds=usec) rounds a float half away from zero
round_to_long(num, den) == (2 * num + den) \div (2 * den)

\* the estimate without scrub_init_duration
est_scrub_duration_no_init(size) ==
    round_to_long(size * 1000000, scrub_rate_est)

\* size/(rate/1e6) + scrub_init_duration, as a timedelta
est_scrub_duration(size) ==
    round_to_long(size * 1000000 + scrub_rate_est, scrub_rate_est)

\* the estimated duration added to the end time instead of subtracted
add_scrub_start_event_later(end_event) ==
    IF end_event.scrub_type = SCRUB_DEEP
    THEN /\ log' = add(log, ScrubEvent(
                        end_event.time + est_scrub_duration(end_event.pg.bytes),
                        end_event.scrub_type, end_event.pg, TRUE, nadded + 1))
         /\ nadded' = nadded + 1
    ELSE UNCHANGED <<log, nadded>>

\* a start event stored under the end event's own timestamp
add_scrub_start_event_in_place(end_event) ==
    IF end_event.scrub_type = SCRUB_DEEP
    THEN /\ log' = add(log, ScrubEvent(end_event.time, end_event.scrub_type,
                                       end_event.pg, TRUE, nadded + 1))
         /\ nadded' = nadded + 1
    ELSE UNCHANGED <<log, nadded>>

add_scrub_start_event(end_event) ==
    IF end_event.scrub_type = SCRUB_DEEP
    THEN /\ log' = add(log, ScrubEvent(
                        end_event.time - est_scrub_duration(end_event.pg.bytes),
                        end_event.scrub_type, end_event.pg, TRUE, nadded + 1))
         /\ nadded' = nadded + 1
    ELSE UNCHANGED <<log, nadded>>

\* one iteration of the loop of add_scrub_start_events
SynthVisit ==
    /\ pc = "synth"
    /\ gen_has_next(log, gen_keys, gen_k, gen_i)
    /\ LET pos == gen_next_pos(log, gen_keys, gen_k, gen_i)
           event == log[gen_keys[pos[1]]][pos[2]]
       IN  /\ gen_k' = pos[1]
           /\ gen_i' = pos[2]
           /\ IF event.cls = "ScrubEvent"
              THEN /\ handed' = Append(handed, event)
                   /\ add_scrub_start_event(event)
              ELSE UNCHANGED <<handed, log, nadded>>
    /\ UNCHANGED <<pc, err, input, config, counters, out, topology, pg,
                   gen_keys, snap>>

\* the generator is exhausted; the emission loop creates the next one
SynthDone ==
    /\ pc = "synth"
    /\ ~gen_has_next(log, gen_keys, gen_k, gen_i)
    /\ pc' = "emit"
    /\ gen_keys' = sorted(DOMAIN log)
    /\ gen_k' = 1
    /\ gen_i' = 0
    /\ UNCHANGED <<err, input, config, counters, log, nadded, out, topology,
                   pg, snap, handed>>

(***************************************************************************)
(* Emission: print(event) for every event of forward()                     *)
(***************************************************************************)
\* str(event): PG.__str__ joins the host names, which fails on None
printable(event) ==
    \/ event.cls # "ScrubEvent"
    \/ \A i \in 1..Len(event.pg.hosts) : event.pg.hosts[i] # None

EmitEvent ==
    /\ pc = "emit"
    /\ gen_has_next(log, gen_keys, gen_k, gen_i)
    /\ LET pos == gen_next_pos(log, gen_keys, gen_k, gen_i)
           event == log[gen_keys[pos[1]]][pos[2]]
       IN  /\ gen_k' = pos[1]
           /\ gen_i' = pos[2]
           /\ IF printable(event)
              THEN /\ out' = Append(out, Printed("event", event.seq))
                   /\ Continue
              ELSE /\ Raise("TypeError")
                   /\ UNCHANGED out
    /\ UNCHANGED <<input, config, counters, log, nadded, topology, pg,
                   gen_keys, snap, handed>>

EmitDone ==
    /\ pc = "emit"
    /\ ~gen_has_next(log, gen_keys, gen_k, gen_i)
    /\ pc' = "done"
    /\ UNCHANGED <<err, input, config, counters, log, nadded, out, topology,
                   pg, genvars>>

Next ==
    \/ OsdLogScrubLine
    \/ OsdLogSlowLine
    \/ OsdLogSlowsLine
    \/ OsdParamSetLine
    \/ OsdLogUnrecognizedLine
    \/ PgLine
    \/ OsdTreeHostLine
    \/ OsdTreeOsdLine
    \/ OsdStatsLine
    \/ UnknownLine
    \/ EndOfInput
    \/ SynthVisit
    \/ SynthDone
    \/ EmitEvent
    \/ EmitDone

Spec == Init /\ [][Next]_vars

(***************************************************************************)
(* Properties                                                              *)
(***************************************************************************)
IsScrubEvent(e) == e.cls = "ScrubEvent"
IsSlowEvent(e) == e.cls = "OSDSlowRequestEvent"
IsDeepEnd(e) == IsScrubEvent(e) /\ e.scrub_type = SCRUB_DEEP /\ ~e.start
IsStart(e) == IsScrubEvent(e) /\ e.start

Range(q) == {q[i] : i \in 1..Len(q)}

IsPrefix(a, b) ==
    /\ Len(a) <= Len(b)
    /\ \A i \in 1..Len(a) : a[i] = b[i]

\* d microseconds is size * 1e6 / rate + 1 to the nearest microsecond (a
\* datetime holds whole microseconds), a half counting as the next one
IsEstimate(d, size) ==
    LET exact == size * 1000000 + scrub_rate_est    \* times scrub_rate_est
    IN  /\ 2 * (d * scrub_rate_est - exact) <= scrub_rate_est
        /\ 2 * (exact - d * scrub_rate_est) < scrub_rate_est

ClassificationOver == pc \in {"synth", "emit", "done"}
SynthesisOver == pc \in {"emit", "done"}

\* the line parse() is about to classify
AtLine(kind) == pc = "classify" /\ input # <<>> /\ Line.kind = kind
AtLogLine(re) == AtLine("osd_log") /\ Line.rest.re = re

\* C1: once the synthesis pass has run, every deep end event has its start
\* event (same PG, deep, at the end time minus bytes * 1e6 / rate + 1
\* microseconds), as many matching starts as there are copies of the end,
\* and the log holds as many start events as deep end events.
C1_StartPerDeepEnd ==
    SynthesisOver =>
        LET evs == forward(log)
            ends == SelectSeq(evs, IsDeepEnd)
            starts == SelectSeq(evs, IsStart)
            Match(e, st) ==
                /\ st.pg = e.pg
                /\ st.scrub_type = SCRUB_DEEP
                /\ st.time < e.time
                /\ IsEstimate(e.time - st.time, e.pg.bytes)
        IN  /\ Len(starts) = Len(ends)
            /\ \A i \in 1..Len(ends) :
                   Cardinality({j \in 1..Len(starts) : Match(ends[i], starts[j])})
                     = Cardinality({k \in 1..Len(ends) :
                                       /\ ends[k].pg = ends[i].pg
                                       /\ ends[k].time = ends[i].time})

\* two deep ends of the same PG at the same time, and a deep end of the
\* other PG, have all got their starts
C1_Witness ==
    /\ pc = "done"
    /\ LET ends == SelectSeq(forward(log), IsDeepEnd)
       IN  /\ \E i, j \in 1..Len(ends) :
                  i # j /\ ends[i].pg = ends[j].pg /\ ends[i].time = ends[j].time
           /\ \E i, j \in 1..Len(ends) : ends[i].pg.bytes # ends[j].pg.bytes

\* C2: forward() yields every added event exactly once, in non-decreasing
\* order of time, events of equal time in the order they were added.
C2_ForwardOrder ==
    LET evs == forward(log)
    IN  /\ Len(evs) = nadded
        /\ \A n \in 1..nadded :
               Cardinality({i \in 1..Len(evs) : evs[i].seq = n}) = 1
        /\ \A i, j \in 1..Len(evs) :
               i < j => /\ evs[i].time <= evs[j].time
                        /\ evs[i].time = evs[j].time => evs[i].seq < evs[j].seq

\* an event added later is yielded earlier, and some bucket holds two events
C2_Witness ==
    LET evs == forward(log)
    IN  /\ \E i, j \in 1..Len(evs) : i < j /\ evs[i].seq > evs[j].seq
        /\ \E t \in DOMAIN log : Len(log[t]) >= 2
        /\ Cardinality(DOMAIN log) >= 2

\* C3: every slow-request event in the log carries the "received at"
\* timestamp of its line.
C3_SlowEventAtReceived ==
    \A e \in Range(forward(log)) : IsSlowEvent(e) => e.time = e.received

\* C4: a scrub-completion line is skipped by the filter if and only if a
\* min_time is configured and the line's timestamp is strictly before it.
C4_FilterStrictlyBefore ==
    [][AtLogLine("scrub") =>
          ((pc' = pc /\ counters' = counters /\ log' = log)
             <=> (min_time # NoMinTime /\ Line.tstamp < min_time))]_vars

\* C5: every node of the topology is bound to the host of a host line,
\* never to the "no current host" value.
C5_NoNodeWithoutHost ==
    \A o \in DOMAIN osd_to_host : osd_to_host[o] \in Hosts

C7_SnapshotOnly ==
    LET before == SelectSeq(snap, IsScrubEvent)
    IN  /\ pc = "synth" => IsPrefix(handed, before)
        /\ SynthesisOver => handed = before
        /\ \A i \in 1..Len(handed) : ~handed[i].start

\* the pass is over and one of its start events sits in a bucket that
\* existed when it began
C7_Witness ==
    /\ SynthesisOver
    /\ Len(handed) >= 2
    /\ \E t \in DOMAIN log :
           /\ \E i \in 1..Len(log[t]) : IsStart(log[t][i])
           /\ \E e \in Range(snap) : e.time = t

\* C8: every registered PG has one host per acting member, the one the
\* topology resolves that member to now.
C8_HostsCurrent ==
    \A id \in DOMAIN pg :
        /\ Len(pg[id].hosts) = Len(pg[id].acting)
        /\ \A i \in 1..Len(pg[id].acting) :
               pg[id].hosts[i] = osd_to_host[pg[id].acting[i]]

\* C8, amended: a PG-dump line that is accepted registers its acting set
\* with one host per member, the one the topology resolves the member to
\* when the line is processed; no other line changes the registry.
C8_HostsAsOfDump ==
    [][(pc = "classify" /\ input # <<>>) =>
          IF Line.kind = "pg" /\ pc' = "classify"
          THEN LET p == pg'[Line.pgid]
               IN  /\ p.acting = Line.acting_set
                   /\ Len(p.hosts) = Len(p.acting)
                   /\ \A i \in 1..Len(p.acting) :
                          p.hosts[i] = osd_to_host[p.acting[i]]
                   /\ \A id \in DOMAIN pg : id # Line.pgid => pg'[id] = pg[id]
          ELSE pg' = pg]_vars

\* a PG of two acting members whose stored host differs from the topology
C8_Witness ==
    \E id \in DOMAIN pg :
        /\ Len(pg[id].acting) = 2
        /\ Len(pg[id].hosts) = 2
        /\ \E i \in 1..2 : pg[id].hosts[i] # osd_to_host[pg[id].acting[i]]

\* C9: a slow-request line with an unknown explanation that passes the
\* filter never aborts: a diagnostic is printed, the log is unchanged.
C9_UnknownSlowNonFatal ==
    [][(/\ AtLogLine("slow")
        /\ passes_min_time(Line.tstamp)
        /\ Line.rest.explanation \notin KnownOps) =>
          /\ pc' = "classify"
          /\ log' = log
          /\ out' = Append(out, Printed("diag", 0))]_vars

\* C10: after a classification pass that completed, the total scrub count
\* is the sum of the shallow and the deep counts.
C10_CountsAddUp ==
    ClassificationOver => scrub_count = shallow_count + deep_count

\* a finished run that counted shallow and deep scrubs under a min_time
C10_Witness ==
    /\ pc = "done"
    /\ shallow_count >= 1
    /\ deep_count >= 2
    /\ min_time # NoMinTime

\* C11: a log line that passes the filter and whose remainder no
\* sub-grammar matches aborts the run with ParseError; the same line removed
\* by the filter is consumed, never aborts and changes nothing else.
C11_UnrecognizedRemainder ==
    [][AtLogLine("other") =>
          IF passes_min_time(Line.tstamp)
          THEN pc' = "aborted" /\ err' = "ParseError"
          ELSE /\ pc' = "classify"
               /\ err' = err
               /\ input' = Tail(input)
               /\ UNCHANGED <<config, counters, log, nadded, out, topology,
                              pg, genvars>>]_vars

\* a run that an unrecognized remainder stamped after min_time aborted
C11_Witness ==
    /\ pc = "aborted"
    /\ err = "ParseError"
    /\ min_time # NoMinTime

\* C12: a line that none of the five grammars matches never raises, echoed
\* or not, and leaves topology, host cursor, registry, counters and log
\* unchanged.
C12_UnknownLineHarmless ==
    [][AtLine("other") =>
          /\ pc' = "classify"
          /\ err' = err
          /\ UNCHANGED <<topology, pg, counters, log>>
          /\ out' = IF log_unknown_lines
                    THEN Append(out, Printed("echo", 0)) ELSE out]_vars

\* an unknown line was echoed and the run went on to its end
C12_Witness ==
    /\ pc = "done"
    /\ \E i \in 1..Len(out) : out[i].kind = "echo"

\* C13: the log never holds a shallow ScrubEvent, whatever the pass.
C13_NoShallowEvent ==
    \A e \in Range(forward(log)) :
        IsScrubEvent(e) => e.scrub_type = SCRUB_DEEP

\* shallow scrubs were counted, deep ones logged and given their starts
C13_Witness ==
    /\ pc = "done"
    /\ shallow_count >= 1
    /\ \E e \in Range(forward(log)) : IsStart(e)

\* positions of the output that hold an entry of the given kind
OutIndex(kind) == {i \in 1..Len(out) : out[i].kind = kind}

\* the run got past classification (an abort after it is a TypeError)
PastClassification ==
    \/ ClassificationOver
    \/ pc = "aborted" /\ err = "TypeError"

\* C14: the three passes are strictly ordered: a synthesized start exists
\* only when the whole input has been classified, an event is listed only
\* when every deep end has its start and the synthesis loop is over, and the
\* summary is printed exactly once, on leaving classification, before every
\* listed event.
C14_PassesOrdered ==
    /\ (\E e \in Range(forward(log)) : IsStart(e))
          => input = <<>> /\ PastClassification
    /\ OutIndex("event") # {}
          => /\ PastClassification /\ pc # "synth"
             /\ Cardinality({e \in Range(forward(log)) : IsStart(e)})
                  = Cardinality({e \in Range(forward(log)) : IsDeepEnd(e)})
    /\ Cardinality(OutIndex("summary")) = IF PastClassification THEN 1 ELSE 0
    /\ \A i \in OutIndex("event") : \A j \in OutIndex("summary") : j < i

\* a finished run that synthesized a start and listed events after the summary
C14_Witness ==
    /\ pc = "done"
    /\ \E e \in Range(forward(log)) : IsStart(e)
    /\ Cardinality(OutIndex("event")) >= 2
    /\ OutIndex("summary") # {}

\* the PG-dump line at the head of the input fails parse_pg's validation
BadPgLine ==
    /\ AtLine("pg")
    /\ \/ Line.up_set[1] # Line.up_primary
       \/ Line.acting_set[1] # Line.acting_primary
       \/ \E i \in 1..Len(Line.acting_set) :
             Line.acting_set[i] \notin DOMAIN osd_to_host

\* C15: a PG-dump line with a primary that is not the first of its set, or
\* with an acting node the topology does not know, aborts the run and leaves
\* the registry as it was.
C15_BadPgLineAborts ==
    [][BadPgLine =>
          /\ pc' = "aborted"
          /\ err' \in {"AssertionError", "KeyError"}
          /\ pg' = pg]_vars

\* a dump line naming an unknown node aborted a run that had a record
C15_Witness ==
    /\ pc = "aborted"
    /\ err = "KeyError"
    /\ DOMAIN pg # {}
    /\ input # <<>>

\* the deep end events of a log, and those stored under one timestamp
DeepEnds(l) == {e \in Range(forward(l)) : IsDeepEnd(e)}
DeepEndsAt(l, t) == IF t \in DOMAIN l THEN {e \in Range(l[t]) : IsDeepEnd(e)}
                    ELSE {}

\* a scrub-completion line that the filter lets through is being classified
\* and does not abort the run
ScrubLineCounted ==
    /\ AtLogLine("scrub")
    /\ passes_min_time(Line.tstamp)
    /\ pc' # "aborted"

\* what one classified line does to the counters and the deep end events
C16_LineStep ==
    IF ScrubLineCounted
    THEN LET deep == Line.rest.scrub_type = "deep-scrub"
         IN  /\ scrub_count' = scrub_count + 1
             /\ deep_count' = deep_count + (IF deep THEN 1 ELSE 0)
             /\ IF deep
                THEN /\ Cardinality(DeepEnds(log')) =
                            Cardinality(DeepEnds(log)) + 1
                     /\ Cardinality(DeepEndsAt(log', Line.tstamp)) =
                            Cardinality(DeepEndsAt(log, Line.tstamp)) + 1
                     /\ DeepEnds(log) \subseteq DeepEnds(log')
                ELSE log' = log
    ELSE pc' # "aborted" =>
            /\ scrub_count' = scrub_count
            /\ deep_count' = deep_count
            /\ DeepEnds(log') = DeepEnds(log)

\* C16: the counters start at zero; every scrub-completion line that passes
\* the filter adds one to scrub_count, one to deep_count if it is deep, and
\* then exactly one deep end event at the line's own timestamp, and no other
\* step of a run that goes on changes any of the three; so after a complete
\* classification the log holds deep_count deep end events.
C16_CountedOnceLoggedOnce ==
    /\ scrub_count = 0 /\ deep_count = 0 /\ DeepEnds(log) = {}
    /\ [][C16_LineStep]_vars
    /\ [](ClassificationOver =>
             Cardinality(DeepEnds(log)) = deep_count)

\* a finished run with two deep ends under one timestamp and a filter set
C16_Witness ==
    /\ pc = "done"
    /\ min_time # NoMinTime
    /\ deep_count = 2
    /\ scrub_count = 3
    /\ \E t \in DOMAIN log : Cardinality(DeepEndsAt(log, t)) = 2

\* C17: every logged ScrubEvent references the record the registry holds
\* for its pg id.
C17_EventRecordIsRegistryRecord ==
    \A e \in Range(forward(log)) :
        IsScrubEvent(e) =>
            /\ e.pg.pgid \in DOMAIN pg
            /\ e.pg = pg[e.pg.pgid]

\* the record of the PG-dump line at the head of the input
LineRecord ==
    PG(Line.pgid, Line.bytes, Line.up_set, Line.acting_set,
       pg_hosts(Line.acting_set))

\* C17, amended: logged events and the records they reference never change
\* (a bucket only grows at its end); a registry entry is never removed and
\* changes only when an accepted PG-dump line for its id replaces it with
\* that line's record; a deep end event references the record the registry
\* holds when its line is classified.
C17_RecordsFrozenRegistryReplaced ==
    [][/\ \A t \in DOMAIN log :
             t \in DOMAIN log' /\ IsPrefix(log[t], log'[t])
       /\ \A id \in DOMAIN pg :
             /\ id \in DOMAIN pg'
             /\ pg'[id] # pg[id] => AtLine("pg") /\ Line.pgid = id
       /\ (AtLine("pg") /\ pc' # "aborted") => pg'[Line.pgid] = LineRecord
       /\ (ScrubLineCounted /\ Line.rest.scrub_type = "deep-scrub") =>
             \A e \in DeepEnds(log') \ DeepEnds(log) :
                 e.pg = pg[Line.rest.pgid]]_vars

\* a finished run whose logged event holds a record the registry replaced
C17_Witness ==
    /\ pc = "done"
    /\ \E e \in Range(forward(log)) :
          /\ IsStart(e)
          /\ e.pg.pgid \in DOMAIN pg
          /\ e.pg.bytes # pg[e.pg.pgid].bytes

\* a deep scrub-completion line for an unregistered PG passes the filter
DeepUnregisteredLine ==
    /\ AtLogLine("scrub")
    /\ passes_min_time(Line.tstamp)
    /\ Line.rest.scrub_type = "deep-scrub"
    /\ Line.rest.pgid \notin DOMAIN pg

\* C18: such a line aborts the run in the state it found: no event added
\* and scrub_count, shallow_count and deep_count unchanged.
C18_AbortStateIsPriorState ==
    [][DeepUnregisteredLine =>
          /\ pc' = "aborted"
          /\ log' = log
          /\ UNCHANGED counters]_vars

\* C18, amended: such a line aborts the run with no event added and with
\* scrub_count and shallow_count unchanged, but with deep_count already
\* incremented, so scrub_count is one short of shallow_count + deep_count
\* in the abort state.
C18_AbortAfterDeepCount ==
    [][DeepUnregisteredLine =>
          /\ pc' = "aborted"
          /\ err' = "KeyError"
          /\ log' = log
          /\ nadded' = nadded
          /\ scrub_count' = scrub_count
          /\ shallow_count' = shallow_count
          /\ deep_count' = deep_count + 1
          /\ scrub_count' + 1 = shallow_count' + deep_count']_vars

\* a run with a filter set that a deep scrub of an unknown PG aborted
C18_Witness ==
    /\ pc = "aborted"
    /\ err = "KeyError"
    /\ min_time # NoMinTime
    /\ scrub_count + 1 = shallow_count + deep_count

RECURSIVE BucketLens(_, _, _)
\* the total length of the buckets of keys[j..]
BucketLens(l, keys, j) ==
    IF j > Len(keys) THEN 0
    ELSE Len(l[keys[j]]) + BucketLens(l, keys, j + 1)

\* the events the synthesis generator has yet to yield
Remaining ==
    IF gen_k > Len(gen_keys) THEN 0
    ELSE BucketLens(log, gen_keys, gen_k) - gen_i

\* one iteration of the synthesis loop: one event fewer to visit; a deep end
\* event causes exactly one add, of a start in a bucket strictly earlier
\* than the one traversed, whose length stays; anything else adds nothing
C19_VisitStep ==
    (pc = "synth" /\ pc' = "synth") =>
        LET t == gen_keys'[gen_k']
            event == log[t][gen_i']
        IN  /\ Remaining' = Remaining - 1
            /\ Len(log'[t]) = Len(log[t])
            /\ IF IsDeepEnd(event)
               THEN /\ nadded' = nadded + 1
                    /\ \E u \in DOMAIN log' :
                          /\ u < t
                          /\ Len(log'[u]) =
                               (IF u \in DOMAIN log THEN Len(log[u]) ELSE 0) + 1
                          /\ IsStart(log'[u][Len(log'[u])])
                          /\ \A v \in DOMAIN log' \ {u} :
                                v \in DOMAIN log /\ log'[v] = log[v]
               ELSE log' = log /\ nadded' = nadded

\* C19: the synthesis pass terminates: the number of events left to visit
\* is finite, never negative and one less after each iteration, because each
\* start goes to a bucket strictly earlier than the one traversed, which
\* never grows; the pass ends when nothing is left, having made exactly one
\* add per deep end event.
C19_SynthesisTerminates ==
    /\ [][C19_VisitStep]_vars
    /\ [](pc = "synth" =>
             /\ Remaining >= 0
             /\ Remaining <= Len(snap)
             /\ Remaining = 0 <=> ENABLED SynthDone)
    /\ [](SynthesisOver =>
             /\ nadded - Len(snap) = Cardinality({e \in Range(snap) : IsDeepEnd(e)})
             /\ Len(handed) = nadded - Len(snap))

\* a finished pass over three deep ends, two of them in one bucket
C19_Witness ==
    /\ SynthesisOver
    /\ nadded - Len(snap) = 3
    /\ \E t \in DOMAIN log : Cardinality(DeepEndsAt(log, t)) = 2
    /\ \E t \in DOMAIN log : \E i \in 1..Len(log[t]) :
           IsStart(log[t][i]) /\ \E e \in Range(snap) : e.time = t

====
